---- MODULE Spec2Model ----
(***************************************************************************)
(* A model of src/main.py: the extract-merge-export pipeline.              *)
(*                                                                         *)
(* JSON values are tagged records: None/null, numbers, lists and dicts.    *)
(* A Python dict is a TLA+ function from its keys (strings) to values; a   *)
(* Python list is a sequence.  A Link header is a sequence of tokens: the  *)
(* delimiter characters the parser looks at ("," ";" "<" ">" " " "=" and   *)
(* the double quote) are tokens of their own, and every other token is a   *)
(* run of characters with no delimiter in it.                              *)
(***************************************************************************)
EXTENDS Integers, Sequences, FiniteSets, TLC

VARIABLES
    config,          \* yaml.safe_load(config.yaml) and the .env settings
    server,          \* the HTTP server: URL -> response
    failAt,          \* index of the GET that fails in transport (0: none)
    pc,              \* position of main()
    outcome,         \* "running", "completed" or the exception that ended the run
    ranges,          \* main.ranges: range name -> (start, end)
    di, ri, si,      \* positions of the dataset, range and source loops
    fetched,         \* main.fetched, in insertion order: <<name, records>> pairs
    next_url,        \* fetch_paginated.next_url ("" models None and "")
    next_params,     \* fetch_paginated.next_params
    records,         \* fetch_paginated.records
    npages,          \* GETs issued by the current fetch_paginated call
    log,             \* every GET, output-sink write and upload so far, in order
    call,            \* a pure function under test and its arguments
    ret              \* its result

vars == <<config, server, failAt, pc, outcome, ranges, di, ri, si, fetched,
          next_url, next_params, records, npages, log, call, ret>>

mainVars == <<config, server, failAt, pc, outcome, ranges, di, ri, si, fetched,
              next_url, next_params, records, npages, log>>

-----------------------------------------------------------------------------
(* JSON values and Python dicts *)

None == [t |-> "null"]

Num(n) == [t |-> "num", n |-> n]

List(s) == [t |-> "list", v |-> s]

Dict(f) == [t |-> "dict", v |-> f]

IsList(x) == x.t = "list"

IsDict(x) == x.t = "dict"

\* dict.get(key): the value, or None when the key is absent
Get(d, k) == IF k \in DOMAIN d.v THEN d.v[k] ELSE None

\* the empty dict {}
EmptyDict == Dict(<<>>)

\* mutant: the base's values win on a key of both
OverlayBaseWins(base, extra) == Dict(base.v @@ extra.v)

\* {**base, **extra}: extra's values win on a key of both
Overlay(base, extra) == Dict(extra.v @@ base.v)

-----------------------------------------------------------------------------
(* extract_records *)

\* [item for item in seq if isinstance(item, dict)]
DictItems(seq) == SelectSeq(seq, IsDict)

\* mutant: "items" is searched before "data"
ContainerKeysReordered == <<"items", "data", "results">>

ContainerKeys == <<"data", "items", "results">>

RECURSIVE FirstListKey(_, _)
\* the for loop of extract_records from position i: the first container key
\* whose value is a list, or "" when the loop falls through
FirstListKey(payload, i) ==
    IF i > Len(ContainerKeys) THEN ""
    ELSE IF IsList(Get(payload, ContainerKeys[i])) THEN ContainerKeys[i]
    ELSE FirstListKey(payload, i + 1)

extract_records(payload) ==
    IF IsList(payload) THEN DictItems(payload.v)
    ELSE IF IsDict(payload)
         THEN LET key == FirstListKey(payload, 1)
              IN  IF key # "" THEN DictItems(payload.v[key].v)
                  ELSE <<payload>>
    ELSE <<>>

-----------------------------------------------------------------------------
(* parse_link_header, on token sequences *)

\* F applied to the value of e: the model checker evaluates e once, however
\* often F uses it
With(e, F(_)) == CHOOSE r \in { F(x) : x \in {e} } : TRUE

\* position of the first token tok in s at or after i, 0 when there is none
IndexOf(s, tok, i) ==
    With({ k \in i..Len(s) : s[k] = tok }, LAMBDA hits :
        IF hits = {} THEN 0 ELSE CHOOSE k \in hits : \A h \in hits : k <= h)

\* str.split(sep): the runs of tokens between the separators
Split(s, sep) ==
    With({ k \in 1..Len(s) : s[k] = sep }, LAMBDA seps :
        LET \* the position of the j-th separator; the ends of s for j = 0 and beyond
            SepAt(j) == IF j = 0 THEN 0
                        ELSE IF j > Cardinality(seps) THEN Len(s) + 1
                        ELSE CHOOSE k \in seps : Cardinality({ h \in seps : h < k }) = j - 1
        IN  [j \in 1..(Cardinality(seps) + 1) |->
                SubSeq(s, SepAt(j - 1) + 1, SepAt(j) - 1)])

\* str.split(sep, 1): the tokens before the first separator and those after it
SplitOnce(s, sep) ==
    With(IndexOf(s, sep, 1), LAMBDA k :
        IF k = 0 THEN <<s>> ELSE <<SubSeq(s, 1, k - 1), SubSeq(s, k + 1, Len(s))>>)

\* str.strip(chars): strips every leading and trailing character of the set
Strip(s, chars) ==
    With({ k \in 1..Len(s) : s[k] \notin chars }, LAMBDA keep :
        IF keep = {} THEN <<>>
        ELSE SubSeq(s, CHOOSE k \in keep : \A h \in keep : k <= h,
                       CHOOSE k \in keep : \A h \in keep : h <= k))

Whitespace == {" "}

RECURSIVE JoinFrom(_, _)
JoinFrom(s, i) == IF i > Len(s) THEN "" ELSE s[i] \o JoinFrom(s, i + 1)

\* the string a token sequence spells
Join(s) == JoinFrom(s, 1)

\* rel.startswith("rel=")
StartsWithRel(rel) == Len(rel) >= 2 /\ rel[1] = "rel" /\ rel[2] = "="

\* lines 65-69 for a part that holds a ";": halves are its two sides
ParseHalves(links, halves) ==
    With(Strip(Strip(halves[1], Whitespace), {"<", ">"}), LAMBDA url :
    With(Strip(halves[2], Whitespace), LAMBDA rel :
        IF StartsWithRel(rel)
        THEN With(Strip(SplitOnce(rel, "=")[2], {"\""}), LAMBDA rel_value :
                (Join(rel_value) :> Join(url)) @@ links)
        ELSE links))

\* the body of the for loop of parse_link_header for one part
ParsePart(links, part) ==
    With(SplitOnce(part, ";"), LAMBDA halves :
        IF Len(halves) = 1 THEN links ELSE ParseHalves(links, halves))

RECURSIVE ParseParts(_, _, _)
\* the for loop of parse_link_header from part i on
ParseParts(links, parts, i) ==
    IF i > Len(parts) THEN links
    ELSE With(ParsePart(links, parts[i]), LAMBDA updated :
            ParseParts(updated, parts, i + 1))

\* links: relation name -> URL.  An absent header (None) and "" are both <<>>.
parse_link_header(link_header) ==
    IF link_header = <<>> THEN <<>>
    ELSE With(Split(link_header, ","), LAMBDA parts : ParseParts(<<>>, parts, 1))

\* mutant: the relation is looked up under a name no header uses
LinksGetNextMisnamed(links) == IF "Next" \in DOMAIN links THEN links["Next"] ELSE ""

\* links.get("next"), with None modelled as ""
LinksGetNext(links) == IF "next" \in DOMAIN links THEN links["next"] ELSE ""

-----------------------------------------------------------------------------
(* filter_fields *)

\* {field: record.get(field) for field in fields}
ProjectRecord(record, fields) ==
    Dict([f \in {fields[i] : i \in 1..Len(fields)} |-> Get(record, f)])

filter_fields(recs, fields) ==
    [i \in 1..Len(recs) |-> ProjectRecord(recs[i], fields)]

-----------------------------------------------------------------------------
(* merge_records *)

\* lookup.get(key) after the first loop: the secondary records whose merge
\* key is key, in secondary order; records whose key is None are not stored
Lookup(secondary, merge_key, key) ==
    SelectSeq(secondary, LAMBDA item :
        Get(item, merge_key) # None /\ Get(item, merge_key) = key)

\* mutant: an inner join, a primary record without a match is dropped
MergeOneInner(base, secondary, merge_key) ==
    LET extras == Lookup(secondary, merge_key, Get(base, merge_key))
    IN  [j \in 1..Len(extras) |-> Overlay(base, extras[j])]

\* what the second loop appends for one primary record
MergeOne(base, secondary, merge_key) ==
    LET extras == Lookup(secondary, merge_key, Get(base, merge_key))
    IN  IF extras = <<>> THEN <<base>>
        ELSE [j \in 1..Len(extras) |-> Overlay(base, extras[j])]

RECURSIVE MergeLoop(_, _, _)
MergeLoop(primary, secondary, merge_key) ==
    IF primary = <<>> THEN <<>>
    ELSE MergeOne(Head(primary), secondary, merge_key)
         \o MergeLoop(Tail(primary), secondary, merge_key)

merge_records(primary, secondary, merge_key) ==
    IF secondary = <<>> THEN primary
    ELSE MergeLoop(primary, secondary, merge_key)

-----------------------------------------------------------------------------
(* the merge fold of main(), lines 225-232 *)

RECURSIVE FetchedGet(_, _)
\* fetched.get(name, []): fetched is kept as <<name, records>> pairs in
\* insertion order, one pair per name
FetchedGet(fetchedPairs, name) ==
    IF fetchedPairs = <<>> THEN <<>>
    ELSE IF Head(fetchedPairs)[1] = name THEN Head(fetchedPairs)[2]
    ELSE FetchedGet(Tail(fetchedPairs), name)

RECURSIVE FoldLoop(_, _, _, _)
\* for source_name, records in fetched.items(): skip the primary, merge the rest
FoldLoop(merged, fetchedPairs, primary_source_name, merge_key) ==
    IF fetchedPairs = <<>> THEN merged
    ELSE IF Head(fetchedPairs)[1] = primary_source_name
         THEN FoldLoop(merged, Tail(fetchedPairs), primary_source_name, merge_key)
    ELSE FoldLoop(merge_records(merged, Head(fetchedPairs)[2], merge_key),
                  Tail(fetchedPairs), primary_source_name, merge_key)

MergeFold(fetchedPairs, primary_source_name, merge_key) ==
    FoldLoop(FetchedGet(fetchedPairs, primary_source_name), fetchedPairs,
             primary_source_name, merge_key)

-----------------------------------------------------------------------------
(* resolve_date_range.  A date is a position in Calendar; the ISO strings   *)
(* of the configuration are those of Calendar, "" (absent) or junk.        *)

Calendar == <<"2024-06-08", "2024-06-09", "2024-06-10", "2024-06-11">>

\* dt.date.today()
Today == 3

IsIsoDate(s) == \E d \in 1..Len(Calendar) : Calendar[d] = s

\* dt.date.fromisoformat(s), for a string it accepts
fromisoformat(s) == CHOOSE d \in 1..Len(Calendar) : Calendar[d] = s

\* date.isoformat()
isoformat(d) == Calendar[d]

\* the range, or raised when fromisoformat raises ValueError
resolve_date_range(cfg, range_name) ==
    LET manual == cfg.date_ranges.manual[range_name]
        offsets == cfg.date_ranges.offsets[range_name]
    IN  IF manual.start # "" /\ manual.end # ""
        THEN IF IsIsoDate(manual.start) /\ IsIsoDate(manual.end)
             THEN [raised |-> FALSE,
                   value |-> <<fromisoformat(manual.start), fromisoformat(manual.end)>>]
             ELSE [raised |-> TRUE]
        ELSE [raised |-> FALSE,
              value |-> <<Today + offsets.start_offset_days,
                          Today + offsets.end_offset_days>>]

-----------------------------------------------------------------------------
(* main(): helpers *)

\* mutant: only the history range is processed
RangeNamesHistoryOnly == <<"history">>

\* ranges = {"history": ..., "onhand": ...}, in insertion order
RangeNames == <<"history", "onhand">>

\* every field name of the model in sorted() order
FieldOrder == <<"data", "id", "items", "name", "results", "status">>

\* sorted(record.keys())
SortedKeys(record) == SelectSeq(FieldOrder, LAMBDA f : f \in DOMAIN record.v)

\* lines 208-216: the static params with the dates and the page size injected
BuildParams(source, range) ==
    LET p0 == source.params
        p1 == IF source.date_params.start # ""
              THEN (source.date_params.start :> isoformat(range[1])) @@ p0 ELSE p0
        p2 == IF source.date_params.end # ""
              THEN (source.date_params.end :> isoformat(range[2])) @@ p1 ELSE p1
    IN  IF source.per_page # "" THEN ("per_page" :> source.per_page) @@ p2 ELSE p2

\* line 202: dataset_config.get("primary_source") or next(iter(sources.keys()))
PrimarySourceName(dataset) ==
    IF dataset.primary_source # "" THEN dataset.primary_source
    ELSE dataset.sources[1].name

\* line 247: output_fields or sorted(merged_records[0].keys()) if merged_records else []
\* Python reads it as (A or B) if C else D
CsvFields(output_fields, merged) ==
    IF merged # <<>>
    THEN IF output_fields # <<>> THEN output_fields ELSE SortedKeys(merged[1])
    ELSE <<>>

\* lines 237-242
Filename(dataset_name, range_name) ==
    dataset_name \o "_" \o range_name \o "." \o
        (IF config.output.format = "json" THEN "json" ELSE "csv")

OutputPath(filename) ==
    (IF config.output.local_enabled THEN config.output.directory ELSE "<tmp>")
        \o "/" \o filename

\* line 255: "/".join(part.strip("/") for part in [prefix, filename] if part)
UploadKey(prefix, filename) ==
    IF prefix = <<>> THEN filename
    ELSE Join(Strip(prefix, {"/"})) \o "/" \o filename

\* mutant: the status is not looked at
NeverRaises(status) == FALSE

\* response.raise_for_status() raises
RaisesForStatus(status) == status >= 400 /\ status < 600

\* the response to a GET: a URL the server does not know is a 404
NotFound == [status |-> 404, body |-> None, link |-> <<>>]

Respond(url) == IF url \in DOMAIN server THEN server[url] ELSE NotFound

\* the status logged for a GET that got no response
NoResponse == 0

\* mutant: the parameters of the first request are sent again
FollowingParamsKept(params) == params

\* line 94: next_params = None
FollowingParams(params) == None

GetsSoFar == Len(SelectSeq(log, LAMBDA e : e.ev = "GET"))

CurDataset == config.datasets[di]

CurSource == CurDataset.sources[si]

\* an exception no one catches ends the process: its memory is gone, what it
\* wrote stays
Abort(exc) ==
    /\ pc' = "failed"
    /\ outcome' = exc
    /\ fetched' = <<>>
    /\ records' = <<>>
    /\ next_url' = ""
    /\ next_params' = None
    /\ UNCHANGED <<config, server, failAt, ranges, di, ri, si, npages, call, ret>>

-----------------------------------------------------------------------------
(* main(): one action per loop head, call and step *)

MaxPages == 3

\* lines 168-194
Startup ==
    /\ pc = "start"
    /\ UNCHANGED log
    /\ LET history == resolve_date_range(config, "history")
           onhand == resolve_date_range(config, "onhand")
       IN  IF config.base_url = ""
           THEN Abort("SystemExit: API_BASE_URL is required")
           ELSE IF history.raised \/ onhand.raised
           THEN Abort("ValueError: Invalid isoformat string")
           ELSE IF config.datasets = <<>>
           THEN Abort("SystemExit: No datasets configured")
           ELSE /\ ranges' = [history |-> history.value, onhand |-> onhand.value]
                /\ di' = 1
                /\ pc' = "dataset"
                /\ UNCHANGED <<config, server, failAt, outcome, ri, si, fetched,
                               next_url, next_params, records, npages, call, ret>>

\* lines 198-203 and 258
DatasetLoop ==
    /\ pc = "dataset"
    /\ IF di > Len(config.datasets)
       THEN /\ pc' = "done"
            /\ outcome' = "completed"
            /\ UNCHANGED <<di, ri>>
       ELSE IF CurDataset.sources = <<>>
       THEN /\ di' = di + 1
            /\ UNCHANGED <<pc, outcome, ri>>
       ELSE /\ ri' = 1
            /\ pc' = "range"
            /\ UNCHANGED <<di, outcome>>
    /\ UNCHANGED <<config, server, failAt, ranges, si, fetched, next_url,
                   next_params, records, npages, log, call, ret>>

\* lines 205-206
RangeLoop ==
    /\ pc = "range"
    /\ IF ri > Len(RangeNames)
       THEN /\ di' = di + 1
            /\ pc' = "dataset"
            /\ UNCHANGED <<si, fetched>>
       ELSE /\ fetched' = <<>>
            /\ si' = 1
            /\ pc' = "source"
            /\ UNCHANGED di
    /\ UNCHANGED <<config, server, failAt, outcome, ranges, ri, next_url,
                   next_params, records, npages, log, call, ret>>

\* lines 207-219 and 85-87: the next source's request is built and
\* fetch_paginated is entered
SourceLoop ==
    /\ pc = "source"
    /\ IF si > Len(CurDataset.sources)
       THEN /\ pc' = "merge"
            /\ UNCHANGED <<next_url, next_params, records, npages, log>>
       ELSE LET params == BuildParams(CurSource, ranges[RangeNames[ri]])
                url == config.base_url \o CurSource.path
            IN  /\ records' = <<>>
                /\ next_url' = url
                /\ next_params' = Dict(params)
                /\ npages' = 0
                /\ log' = Append(log, [ev |-> "CALL", ds |-> di, rng |-> ri, src |-> si,
                                       url |-> url, params |-> Dict(params)])
                /\ pc' = "fetch"
    /\ UNCHANGED <<config, server, failAt, outcome, ranges, di, ri, si, fetched,
                   call, ret>>

\* lines 88-94: one pass of the while loop
FetchGet ==
    /\ pc = "fetch"
    /\ next_url # ""
    /\ npages < MaxPages
    /\ LET transport == failAt = GetsSoFar + 1
           response == Respond(next_url)
       IN  /\ log' = Append(log, [ev |-> "GET", ds |-> di, rng |-> ri, src |-> si,
                                  url |-> next_url, params |-> next_params,
                                  status |-> IF transport THEN NoResponse
                                             ELSE response.status])
           /\ IF transport
              THEN Abort("ConnectionError")
              ELSE IF RaisesForStatus(response.status)
              THEN Abort("HTTPError")
              ELSE /\ records' = records \o extract_records(response.body)
                   /\ next_url' = LinksGetNext(parse_link_header(response.link))
                   /\ next_params' = FollowingParams(next_params)
                   /\ npages' = npages + 1
                   /\ UNCHANGED <<config, server, failAt, pc, outcome, ranges,
                                  di, ri, si, fetched, call, ret>>

\* lines 95 and 219-223: fetch_paginated returns; the per-source projection
FetchReturn ==
    /\ pc = "fetch"
    /\ next_url = ""
    /\ log' = Append(log, [ev |-> "RETURN", ds |-> di, rng |-> ri, src |-> si,
                           records |-> records])
    /\ fetched' = Append(fetched,
                         <<CurSource.name,
                           IF CurSource.fields # <<>>
                           THEN filter_fields(records, CurSource.fields)
                           ELSE records>>)
    /\ si' = si + 1
    /\ pc' = "source"
    /\ UNCHANGED <<config, server, failAt, outcome, ranges, di, ri, next_url,
                   next_params, records, npages, call, ret>>

\* lines 225-247: the merge fold, the output projection and the output sink
MergeAndWrite ==
    /\ pc = "merge"
    /\ LET folded == MergeFold(fetched, PrimarySourceName(CurDataset),
                               CurDataset.merge_key)
           merged_records == IF CurDataset.output_fields # <<>>
                             THEN filter_fields(folded, CurDataset.output_fields)
                             ELSE folded
           filename == Filename(CurDataset.name, RangeNames[ri])
       IN  log' = Append(log,
                   IF config.output.format = "json"
                   THEN [ev |-> "WRITE", ds |-> di, rng |-> ri, format |-> "json",
                         path |-> OutputPath(filename), records |-> merged_records,
                         fields |-> <<>>]
                   ELSE [ev |-> "WRITE", ds |-> di, rng |-> ri, format |-> "csv",
                         path |-> OutputPath(filename), records |-> merged_records,
                         fields |-> CsvFields(CurDataset.output_fields, merged_records)])
    /\ pc' = "upload"
    /\ UNCHANGED <<config, server, failAt, outcome, ranges, di, ri, si, fetched,
                   next_url, next_params, records, npages, call, ret>>

\* lines 249-256, then the next range
Upload ==
    /\ pc = "upload"
    /\ IF config.s3.enabled /\ config.s3.bucket = ""
       THEN /\ Abort("SystemExit: S3 bucket is required when s3.enabled is true")
            /\ UNCHANGED log
       ELSE /\ log' = IF config.s3.enabled
                      THEN Append(log,
                             [ev |-> "UPLOAD", ds |-> di, rng |-> ri,
                              path |-> OutputPath(Filename(CurDataset.name, RangeNames[ri])),
                              bucket |-> config.s3.bucket,
                              key |-> UploadKey(config.s3.prefix,
                                                Filename(CurDataset.name, RangeNames[ri]))])
                      ELSE log
            /\ ri' = ri + 1
            /\ pc' = "range"
            /\ UNCHANGED <<config, server, failAt, outcome, ranges, di, si, fetched,
                           next_url, next_params, records, npages, call, ret>>

Next ==
    \/ Startup
    \/ DatasetLoop
    \/ RangeLoop
    \/ SourceLoop
    \/ FetchGet
    \/ FetchReturn
    \/ MergeAndWrite
    \/ Upload

-----------------------------------------------------------------------------
(* Configurations and servers the runs start from *)

\* all sequences over S of length at most n
SeqsUpTo(S, n) == UNION {[1..k -> S] : k \in 0..n}

MaxDatasets == 2

MaxFailAt == 6

SourceA ==
    [name |-> "a", path |-> "/a", params |-> ("state" :> "confirmed"),
     date_params |-> [start |-> "from", end |-> "to"], per_page |-> "50",
     fields |-> <<>>]

\* source a with a field whitelist
SourceAProjected == [SourceA EXCEPT !.fields = <<"id">>]

SourceB ==
    [name |-> "b", path |-> "/b", params |-> <<>>,
     date_params |-> [start |-> "", end |-> ""], per_page |-> "",
     fields |-> <<>>]

\* dataset configurations, still to be named: one source; two sources with the
\* second one primary and an output whitelist; a primary_source that names no
\* declared source; no sources; a projected first source
DatasetOptions ==
    { [sources |-> <<SourceA>>, primary_source |-> "",
       output_fields |-> <<>>, merge_key |-> "id"],
      [sources |-> <<SourceA, SourceB>>, primary_source |-> "b",
       output_fields |-> <<"status", "id">>, merge_key |-> "id"],
      [sources |-> <<SourceA, SourceB>>, primary_source |-> "missing",
       output_fields |-> <<>>, merge_key |-> "id"],
      [sources |-> <<>>, primary_source |-> "",
       output_fields |-> <<>>, merge_key |-> "id"],
      [sources |-> <<SourceAProjected, SourceB>>, primary_source |-> "",
       output_fields |-> <<>>, merge_key |-> "id"] }

DatasetNames == <<"reservations", "guests", "rooms", "rates">>

\* config["datasets"]: a dict, so the names differ
Named(options) ==
    [i \in 1..Len(options) |->
        [name |-> DatasetNames[i], sources |-> options[i].sources,
         primary_source |-> options[i].primary_source,
         output_fields |-> options[i].output_fields,
         merge_key |-> options[i].merge_key]]

DatasetConfigs == { Named(o) : o \in SeqsUpTo(DatasetOptions, MaxDatasets) }

NoManual == [start |-> "", end |-> ""]

Offsets ==
    [history |-> [start_offset_days |-> -2, end_offset_days |-> 0],
     onhand |-> [start_offset_days |-> 0, end_offset_days |-> 1]]

DatesByOffset == [manual |-> [history |-> NoManual, onhand |-> NoManual],
                  offsets |-> Offsets]

DateConfigs ==
    { DatesByOffset,
      [manual |-> [history |-> [start |-> "2024-06-08", end |-> "2024-06-09"],
                   onhand |-> NoManual],
       offsets |-> Offsets],
      [manual |-> [history |-> [start |-> "2024-06-08", end |-> ""],
                   onhand |-> NoManual],
       offsets |-> Offsets],
      [manual |-> [history |-> NoManual,
                   onhand |-> [start |-> "2024-06-10", end |-> "junk"]],
       offsets |-> Offsets] }

OutputConfigs ==
    { [format |-> "csv", local_enabled |-> TRUE, directory |-> "processed-csv"],
      [format |-> "json", local_enabled |-> FALSE, directory |-> "processed-csv"] }

S3Configs ==
    { [enabled |-> FALSE, bucket |-> "", prefix |-> <<>>],
      [enabled |-> TRUE, bucket |-> "exports", prefix |-> <<"/", "daily", "/">>],
      [enabled |-> TRUE, bucket |-> "", prefix |-> <<>>] }

BaseUrl == "http://x"

A1 == "http://x/a"

A2 == "http://x/a?page=2"

A3 == "http://x/a?page=3"

B1 == "http://x/b"

\* the Link header segment <url>; rel="name"
LinkTo(url, name) ==
    <<"<", url, ">", ";", " ", "rel", "=", "\"", name, "\"">>

Page(body, link) == [status |-> 200, body |-> body, link |-> link]

Rec1 == Dict([id |-> Num(1), name |-> Num(7)])

Rec2 == Dict([id |-> Num(2), name |-> Num(8)])

Rec3 == Dict([id |-> Num(3)])

PageA1 == Page(Dict([items |-> List(<<Rec1>>)]), LinkTo(A2, "next"))

PageA2 ==
    Page(Dict([items |-> List(<<Rec2, Num(1)>>)]), LinkTo(A1, "prev"))

PageB1 ==
    Page(List(<<Dict([id |-> Num(1), status |-> Num(5)]),
                Dict([id |-> Num(1), status |-> Num(6)])>>), <<>>)

\* the servers of the orchestration runs: two pages of a and one of b; nothing
\* to return; a second page that answers 500
MainServers ==
    { (A1 :> PageA1) @@ (A2 :> PageA2) @@ (B1 :> PageB1),
      (A1 :> Page(Dict([data |-> List(<<>>)]), <<>>)) @@ (B1 :> Page(Num(0), <<>>)),
      (A1 :> PageA1) @@ (A2 :> [status |-> 500, body |-> None, link |-> <<>>])
          @@ (B1 :> PageB1) }

\* the Link headers of the first page in the pagination runs
FirstPageLinks ==
    { <<>>,
      LinkTo(A2, "next"),
      LinkTo(A2, "next") \o <<",", " ">> \o LinkTo(A1, "prev"),
      LinkTo(A1, "prev"),
      LinkTo(A1, "next"),
      <<"<", ">", ";", " ", "rel", "=", "\"", "next", "\"">>,
      <<"<", A2, ">", ";", " ", "rel", "=", "next">>,
      LinkTo(A3, "next") \o <<",">> \o LinkTo(A2, "next"),
      <<"<", A2, ">">>,
      <<"<", A2, ">", ";", " ", "title", "=", "\"", "next", "\"">>,
      LinkTo(A2, "next") \o <<";", " ", "title", "=", "\"", "x", "\"">> }

\* the Link headers of the second page: the last page, back to the first, on to
\* a third, on to a page the server does not have
SecondPageLinks ==
    { <<>>, LinkTo(A1, "next"), LinkTo(A3, "next"), LinkTo(B1, "next") }

PaginationServers ==
    { (A1 :> Page(List(<<Rec1>>), l1))
        @@ (A2 :> Page(Dict([results |-> List(<<Rec2>>)]), l2))
        @@ (A3 :> Page(Rec3, <<>>)) :
      l1 \in FirstPageLinks, l2 \in SecondPageLinks }

Config(datasets, dates, output, s3) ==
    [base_url |-> BaseUrl, date_ranges |-> dates, output |-> output, s3 |-> s3,
     datasets |-> datasets]

OneSource == Named(<<CHOOSE o \in DatasetOptions :
                        o.sources = <<SourceA>> /\ o.output_fields = <<>>>>)

\* the orchestration runs
MainScenarios ==
    { [config |-> Config(d, DatesByOffset, o, s), server |-> srv, failAt |-> f] :
        d \in DatasetConfigs, o \in OutputConfigs, s \in S3Configs,
        srv \in MainServers, f \in 0..MaxFailAt }

\* runs that end, or not, in the configuration checks
StartupScenarios ==
    { [config |-> c, server |-> CHOOSE srv \in MainServers : A2 \in DOMAIN srv,
       failAt |-> 0] :
        c \in { Config(OneSource, dates, o, s) :
                  dates \in DateConfigs, o \in OutputConfigs, s \in S3Configs }
              \cup { [Config(OneSource, DatesByOffset, o, s) EXCEPT !.base_url = ""] :
                       o \in OutputConfigs, s \in S3Configs } }

\* the pagination runs: one dataset of one source
PaginationScenarios ==
    { [config |-> Config(OneSource, DatesByOffset, o, s), server |-> srv, failAt |-> f] :
        o \in {x \in OutputConfigs : x.format = "json"},
        s \in {x \in S3Configs : x.bucket # ""},
        srv \in PaginationServers, f \in 0..MaxFailAt }

InitRun(scenarios) ==
    /\ \E sc \in scenarios :
         /\ config = sc.config
         /\ server = sc.server
         /\ failAt = sc.failAt
    /\ pc = "start"
    /\ outcome = "running"
    /\ ranges = <<>>
    /\ di = 0 /\ ri = 0 /\ si = 0
    /\ fetched = <<>>
    /\ next_url = ""
    /\ next_params = None
    /\ records = <<>>
    /\ npages = 0
    /\ log = <<>>
    /\ call = [fn |-> "none"]
    /\ ret = [done |-> FALSE]

Init == InitRun(MainScenarios \cup StartupScenarios \cup PaginationScenarios)

Spec == Init /\ [][Next]_vars

\* the pagination runs, with the interpreter taking the next step whenever
\* there is one
InitPagination == InitRun(PaginationScenarios)

FairSpec == InitPagination /\ [][Next]_vars /\ WF_vars(Next)

-----------------------------------------------------------------------------
(* Bounds and input universes of the pure-function specifications *)

MaxRecs == 2

MaxFoldRecs == 2

MaxFoldPrimary == 1

MaxItems == 2

\* records for merge_records: the key absent, None, matching, not matching;
\* a second field that both sides may define
MergeRecords ==
    { EmptyDict,
      Dict([id |-> None, f |-> Num(1)]),
      Dict([id |-> Num(1), f |-> Num(1)]),
      Dict([id |-> Num(1), f |-> Num(2)]),
      Dict([id |-> Num(2), f |-> Num(1)]) }

FoldPrimary ==
    { Dict([id |-> Num(1), f |-> Num(0), h |-> Num(0)]),
      Dict([id |-> Num(2), f |-> Num(0)]),
      Dict([f |-> Num(0)]) }

FoldFirst ==
    { Dict([id |-> Num(1), f |-> Num(1), g |-> Num(1)]),
      Dict([id |-> Num(1), g |-> Num(2)]) }

FoldSecond ==
    { Dict([id |-> Num(1), f |-> Num(2)]),
      Dict([id |-> None, f |-> Num(2)]) }

\* the declared sources of the fold, with the primary first or second, and the
\* configured primary naming one of them or none
FoldCalls ==
    { [fn |-> "fold", fetched |-> f, primary |-> p, merge_key |-> "id"] :
        f \in UNION { { <<<<"p", a>>, <<"s1", b>>, <<"s2", c>>>>,
                        <<<<"s1", b>>, <<"p", a>>, <<"s2", c>>>> } :
                      a \in SeqsUpTo(FoldPrimary, MaxFoldPrimary),
                      b \in SeqsUpTo(FoldFirst, MaxFoldRecs),
                      c \in SeqsUpTo(FoldSecond, MaxFoldRecs) },
        p \in {"p", "missing"} }

MergeCalls ==
    { [fn |-> "merge_records", primary |-> p, secondary |-> s, merge_key |-> "id"] :
        p \in SeqsUpTo(MergeRecords, MaxRecs), s \in SeqsUpTo(MergeRecords, MaxRecs) }

\* JSON bodies for extract_records
Items ==
    { None, Num(1), List(<<>>), Dict([id |-> Num(1)]), Dict([id |-> Num(2)]) }

ContainerValues ==
    { None, Num(1), Dict([id |-> Num(3)]), List(<<>>),
      List(<<Dict([id |-> Num(1)]), Num(1)>>), List(<<Dict([id |-> Num(2)])>>) }

\* a dict with any of the container keys and an "id" key
PayloadDicts ==
    { Dict([k \in ks |-> IF k = "id" THEN Num(9) ELSE c[k]]) :
        ks \in SUBSET {"data", "items", "results", "id"},
        c \in [{"data", "items", "results"} -> ContainerValues] }

Payloads ==
    {None, Num(1)} \cup {List(s) : s \in SeqsUpTo(Items, MaxItems)} \cup PayloadDicts

ExtractCalls == { [fn |-> "extract_records", payload |-> p] : p \in Payloads }

-----------------------------------------------------------------------------
(* The specifications of the pure functions: Init draws the arguments, the  *)
(* action applies the function.                                            *)

NoCall == [fn |-> "none"]

NoRet == [done |-> FALSE]

MainIdle ==
    /\ config = <<>> /\ server = <<>> /\ failAt = 0
    /\ pc = "idle" /\ outcome = "idle" /\ ranges = <<>>
    /\ di = 0 /\ ri = 0 /\ si = 0
    /\ fetched = <<>> /\ next_url = "" /\ next_params = <<>>
    /\ records = <<>> /\ npages = 0 /\ log = <<>>

Return(value) ==
    /\ ret' = [done |-> TRUE, value |-> value]
    /\ UNCHANGED <<call, mainVars>>

InitMerge == MainIdle /\ call \in MergeCalls \cup FoldCalls /\ ret = NoRet

CallMergeRecords ==
    /\ call.fn = "merge_records" /\ ~ret.done
    /\ Return(merge_records(call.primary, call.secondary, call.merge_key))

CallMergeFold ==
    /\ call.fn = "fold" /\ ~ret.done
    /\ Return(MergeFold(call.fetched, call.primary, call.merge_key))

NextMerge == CallMergeRecords \/ CallMergeFold

SpecMerge == InitMerge /\ [][NextMerge]_vars

InitExtract == MainIdle /\ call \in ExtractCalls /\ ret = NoRet

CallExtractRecords ==
    /\ call.fn = "extract_records" /\ ~ret.done
    /\ Return(extract_records(call.payload))

NextExtract == CallExtractRecords

SpecExtract == InitExtract /\ [][NextExtract]_vars

-----------------------------------------------------------------------------
(* Claims about merge_records and the merge fold (SpecMerge) *)

\* m: the number of secondary records whose non-null key equals base's key
Matches(base, secondary, k) ==
    Cardinality({ j \in 1..Len(secondary) :
                    /\ Get(secondary[j], k) # None
                    /\ Get(secondary[j], k) = Get(base, k) })

AtLeastOne(m) == IF m = 0 THEN 1 ELSE m

RECURSIVE OutputsBefore(_, _, _, _)
\* the number of output records the primary records before position i account for
OutputsBefore(primary, secondary, k, i) ==
    IF i <= 1 THEN 0
    ELSE OutputsBefore(primary, secondary, k, i - 1)
         + AtLeastOne(Matches(primary[i - 1], secondary, k))

\* C1: merge_records is a left join.  Each primary record accounts, in primary
\* order, for exactly max(1, m) output records, m being the number of secondary
\* records whose non-null key equals its key; with m = 0 (the key absent or
\* None included) it is emitted once, unchanged; so the output is never shorter
\* than the primary, and merging with an empty secondary returns the primary.
C1_LeftJoin ==
    (call.fn = "merge_records" /\ ret.done) =>
        LET p == call.primary
            s == call.secondary
            k == call.merge_key
            out == ret.value
        IN  /\ Len(out) = OutputsBefore(p, s, k, Len(p) + 1)
            /\ \A i \in 1..Len(p) :
                 LET off == OutputsBefore(p, s, k, i)
                     m == Matches(p[i], s, k)
                 IN  /\ m = 0 => out[off + 1] = p[i]
                     /\ \A t \in 1..m :
                          /\ Get(out[off + t], k) = Get(p[i], k)
                          /\ DOMAIN p[i].v \subseteq DOMAIN out[off + t].v
            /\ Len(out) >= Len(p)
            /\ s = <<>> => out = p

\* a merge where one primary record matches two secondary records and another,
\* whose key is absent or None, matches none, beside a non-empty secondary
C1_Witness ==
    /\ call.fn = "merge_records" /\ ret.done
    /\ \E i, j \in 1..Len(call.primary) :
         /\ Matches(call.primary[i], call.secondary, call.merge_key) = 2
         /\ Get(call.primary[j], call.merge_key) = None
         /\ call.secondary # <<>>
    /\ Len(ret.value) > Len(call.primary)

\* the record sets of the non-primary sources, in declaration order
Secondaries(c) ==
    LET rest == SelectSeq(c.fetched, LAMBDA pair : pair[1] # c.primary)
    IN  [q \in 1..Len(rest) |-> rest[q][2]]

\* every way to pick a position, or 0, in each secondary source
ChoiceSpace(secs) ==
    LET longest == CHOOSE n \in 0..100 :
                      /\ \A q \in 1..Len(secs) : Len(secs[q]) <= n
                      /\ n = 0 \/ \E q \in 1..Len(secs) : Len(secs[q]) = n
    IN  [1..Len(secs) -> 0..longest]

\* a choice of one matching record per secondary source for the primary record
\* base: 0 for a source that holds no match
Choices(base, secs, k) ==
    { c \in ChoiceSpace(secs) :
        \A q \in 1..Len(secs) :
            IF Matches(base, secs[q], k) = 0 THEN c[q] = 0
            ELSE /\ c[q] \in 1..Len(secs[q])
                 /\ Get(secs[q][c[q]], k) # None
                 /\ Get(secs[q][c[q]], k) = Get(base, k) }

\* the sources among the chosen records that define field f
Definers(f, secs, c) ==
    { q \in 1..Len(secs) : c[q] # 0 /\ f \in DOMAIN secs[q][c[q]].v }

Last(S) == CHOOSE q \in S : \A r \in S : r <= q

\* the record the claim describes: a field takes the value of the last-declared
\* chosen secondary that defines it, and the primary's value when none does
Combined(base, secs, c) ==
    LET fields == DOMAIN base.v \cup
                  UNION { DOMAIN secs[q][c[q]].v : q \in {x \in 1..Len(secs) : c[x] # 0} }
    IN  Dict([f \in fields |->
                IF Definers(f, secs, c) = {} THEN base.v[f]
                ELSE secs[Last(Definers(f, secs, c))][c[Last(Definers(f, secs, c))]].v[f]])

RECURSIVE Expansion(_, _, _, _)
\* the product over the sources from q on of max(1, m)
Expansion(base, secs, k, q) ==
    IF q > Len(secs) THEN 1
    ELSE AtLeastOne(Matches(base, secs[q], k)) * Expansion(base, secs, k, q + 1)

RECURSIVE TotalExpansion(_, _, _, _)
TotalExpansion(primary, secs, k, i) ==
    IF i > Len(primary) THEN 0
    ELSE Expansion(primary[i], secs, k, 1) + TotalExpansion(primary, secs, k, i + 1)

\* C2: the non-primary sources are folded into the primary record set in
\* declaration order, each pass working on the previous pass's output; in every
\* combined record a field takes the value of the last-declared matching
\* secondary that defines it, and a field only the primary defines keeps the
\* primary's value.
C2_OverlayPrecedence ==
    (call.fn = "fold" /\ ret.done) =>
        LET prim == FetchedGet(call.fetched, call.primary)
            secs == Secondaries(call)
            k == call.merge_key
            out == ret.value
        IN  /\ { out[i] : i \in 1..Len(out) } =
               { Combined(prim[i], secs, c) :
                   <<i, c>> \in { ic \in (1..Len(prim)) \X ChoiceSpace(secs) :
                                    ic[2] \in Choices(prim[ic[1]], secs, k) } }
            /\ Len(out) = TotalExpansion(prim, secs, k, 1)

\* a folded record whose field f is defined by the primary and by both
\* secondaries and carries the second one's value, whose g comes from the first
\* secondary alone and whose h comes from the primary alone
C2_Witness ==
    /\ call.fn = "fold" /\ ret.done
    /\ \E i \in 1..Len(ret.value) :
         /\ {"f", "g", "h"} \subseteq DOMAIN ret.value[i].v
         /\ ret.value[i].v["f"] = Num(2)
         /\ ret.value[i].v["g"] = Num(1)
         /\ ret.value[i].v["h"] = Num(0)
    /\ \E a \in 1..Len(Secondaries(call)[1]) :
         Get(Secondaries(call)[1][a], "f") = Num(1)

-----------------------------------------------------------------------------
(* Claims about extract_records (SpecExtract) *)

RECURSIVE OnlyDicts(_)
\* the dict elements of a sequence, in order
OnlyDicts(seq) ==
    IF seq = <<>> THEN <<>>
    ELSE IF Head(seq).t = "dict" THEN <<Head(seq)>> \o OnlyDicts(Tail(seq))
    ELSE OnlyDicts(Tail(seq))

HoldsList(payload, key) == key \in DOMAIN payload.v /\ payload.v[key].t = "list"

\* C10: extract_records is total and follows the policy order: a list yields its
\* dict elements in order; a mapping yields the dict elements of the value under
\* the first of "data", "items", "results" that holds a list, or the mapping
\* itself as the only record when none does; a scalar or null yields nothing.
\* The argument is left as it was.
C10_ExtractPolicy ==
    (call.fn = "extract_records" /\ ret.done) =>
        LET p == call.payload
            out == ret.value
        IN  /\ p.t = "list" => out = OnlyDicts(p.v)
            /\ p.t = "dict" =>
                 /\ HoldsList(p, "data") => out = OnlyDicts(p.v["data"].v)
                 /\ (~HoldsList(p, "data") /\ HoldsList(p, "items"))
                      => out = OnlyDicts(p.v["items"].v)
                 /\ (~HoldsList(p, "data") /\ ~HoldsList(p, "items")
                        /\ HoldsList(p, "results"))
                      => out = OnlyDicts(p.v["results"].v)
                 /\ (~HoldsList(p, "data") /\ ~HoldsList(p, "items")
                        /\ ~HoldsList(p, "results"))
                      => out = <<p>>
            /\ p.t \in {"num", "null"} => out = <<>>

\* a mapping whose "data" is no list and whose "items" and "results" both hold
\* lists, "items" holding a non-dict element that is dropped
C10_Witness ==
    /\ call.fn = "extract_records" /\ ret.done
    /\ call.payload.t = "dict"
    /\ "data" \in DOMAIN call.payload.v /\ ~HoldsList(call.payload, "data")
    /\ HoldsList(call.payload, "items") /\ HoldsList(call.payload, "results")
    /\ Len(call.payload.v["items"].v) = 2
    /\ Len(ret.value) = 1
    /\ call.payload.v["results"].v # call.payload.v["items"].v

-----------------------------------------------------------------------------
(* Claims about the run of main() (Spec, FairSpec) *)

IsEvent(i, kind) == i \in 1..Len(log) /\ log[i].ev = kind

\* the events of one kind for dataset d and range r
EventsOf(kind, d, r) ==
    { i \in 1..Len(log) : log[i].ev = kind /\ log[i].ds = d /\ log[i].rng = r }

\* (d1, r1) is processed before (d2, r2), or is the same pair
NotAfter(d1, r1, d2, r2) == d1 < d2 \/ (d1 = d2 /\ r1 <= r2)

\* a GET that got no response or a status outside 2xx
FailedGet(e) == e.ev = "GET" /\ ~(e.status >= 200 /\ e.status <= 299)

ConfigErrors ==
    { "SystemExit: S3 bucket is required when s3.enabled is true",
      "ValueError: Invalid isoformat string" }

\* C5: a run that ends with a configuration error (upload enabled without a
\* bucket, an invalid manual date string) has written and uploaded nothing.
C5_NoPartialOutput ==
    outcome \in ConfigErrors =>
        \A i \in 1..Len(log) : log[i].ev \notin {"WRITE", "UPLOAD"}

Declares(dataset, name) ==
    \E k \in 1..Len(dataset.sources) : dataset.sources[k].name = name

\* C6: when the configured primary_source names no declared source, the run
\* aborts and nothing is written or uploaded for that dataset/range.
C6_MissingPrimaryFatal ==
    /\ \A i \in 1..Len(log) :
         log[i].ev \in {"WRITE", "UPLOAD"} =>
            Declares(config.datasets[log[i].ds],
                     PrimarySourceName(config.datasets[log[i].ds]))
    /\ outcome = "completed" =>
         \A d \in 1..Len(config.datasets) :
            config.datasets[d].sources # <<>> =>
                Declares(config.datasets[d], PrimarySourceName(config.datasets[d]))

\* what the claim says of one dataset/range of a completed run: one write in
\* the configured format, after every source was fetched; one upload after it
\* when upload is enabled, none otherwise
PairDone(d, r) ==
    /\ Cardinality(EventsOf("WRITE", d, r)) = 1
    /\ \A w \in EventsOf("WRITE", d, r) :
         /\ log[w].format = config.output.format
         /\ \A k \in 1..Len(config.datasets[d].sources) :
              \E i \in EventsOf("RETURN", d, r) : log[i].src = k /\ i < w
         /\ \A i \in EventsOf("GET", d, r) \cup EventsOf("CALL", d, r) : i < w
         /\ IF config.s3.enabled
            THEN /\ Cardinality(EventsOf("UPLOAD", d, r)) = 1
                 /\ \A u \in EventsOf("UPLOAD", d, r) : w < u
            ELSE EventsOf("UPLOAD", d, r) = {}

\* the pairs are processed one after another: the log is ordered by pair
Sequential ==
    \A i, j \in 1..Len(log) :
        i < j => NotAfter(log[i].ds, log[i].rng, log[j].ds, log[j].rng)

\* C7 as stated: in a run without failures every configured dataset and each of
\* the ranges history and onhand gets exactly one write, after all its fetches,
\* and one upload when enabled; the pairs do not overlap.
C7_EveryDatasetWritten ==
    /\ Sequential
    /\ outcome = "completed" =>
         \A d \in 1..Len(config.datasets) : \A r \in 1..2 : PairDone(d, r)

\* C7 amended: the same for every configured dataset that declares at least
\* one source; a dataset without sources is skipped.
C7_EverySourcedDatasetWritten ==
    /\ Sequential
    /\ outcome = "completed" =>
         \A d \in 1..Len(config.datasets) :
            IF config.datasets[d].sources # <<>>
            THEN \A r \in 1..2 : PairDone(d, r)
            ELSE \A i \in 1..Len(log) : log[i].ds # d

\* a completed run of two datasets, the first of two sources, with upload on
C7_Witness ==
    /\ outcome = "completed"
    /\ Len(config.datasets) = 2
    /\ Len(config.datasets[1].sources) = 2
    /\ config.datasets[2].sources # <<>>
    /\ config.s3.enabled
    /\ Cardinality({ i \in 1..Len(log) : log[i].ev = "UPLOAD" }) = 4

\* the resolved output field list
ResolvedFields(output_fields, merged) ==
    IF output_fields # <<>> THEN output_fields
    ELSE IF merged # <<>> THEN SortedKeys(merged[1])
    ELSE <<>>

\* C8: the header of a CSV write is the output whitelist when that is not
\* empty, whether or not there are records; otherwise the sorted field names of
\* the first merged record, or nothing when there is no record.
C8_CsvHeader ==
    \A i \in 1..Len(log) :
        (log[i].ev = "WRITE" /\ log[i].format = "csv") =>
            log[i].fields =
                ResolvedFields(config.datasets[log[i].ds].output_fields, log[i].records)

-----------------------------------------------------------------------------
(* Claims about fetch_paginated *)

\* the links of the response the server gives for url
LinksOf(url) == parse_link_header(Respond(url).link)

\* the response for url carries a "next" relation
HasNextRelation(url) == "next" \in DOMAIN LinksOf(url)

\* the URL of that relation, "" when there is none
NextRelationUrl(url) == IF HasNextRelation(url) THEN LinksOf(url)["next"] ELSE ""

\* the response for url carries a "next" relation whose URL is not empty
HasNextUrl(url) == NextRelationUrl(url) # ""

\* the CALL event a RETURN or GET event at position e belongs to
CallOf(e) ==
    CHOOSE c \in 1..e : log[c].ev = "CALL" /\ \A x \in (c + 1)..e : log[x].ev # "CALL"

\* the GET events of the call that returned at position e, in order
GetsOf(e) ==
    LET c == CallOf(e)
    IN  [k \in 1..(e - c - 1) |-> log[c + k]]

RECURSIVE PagesRecords(_)
\* the normalized records of the pages the GETs fetched, page after page
PagesRecords(gets) ==
    IF gets = <<>> THEN <<>>
    ELSE extract_records(Respond(Head(gets).url).body) \o PagesRecords(Tail(gets))

\* the chain of requests of one returned call: the given URL with the initial
\* parameters first, then each response's "next" URL without parameters, and
\* the records of the pages in page order
FollowsChain(e) ==
    LET g == GetsOf(e)
        n == Len(g)
    IN  /\ n >= 1
        /\ \A k \in 1..n : g[k].ev = "GET"
        /\ g[1].url = log[CallOf(e)].url
        /\ g[1].params = log[CallOf(e)].params
        /\ \A k \in 2..n :
             /\ g[k].url = NextRelationUrl(g[k - 1].url)
             /\ g[k].params = None
        /\ log[e].records = PagesRecords(g)

\* C3 as stated: fetch_paginated follows the cursor chain; it has issued exactly
\* n GETs when the n-th response is the first one without a "next" relation,
\* and returns the records of pages 1..n in page order.
C3_CursorChain ==
    \A e \in 1..Len(log) :
        log[e].ev = "RETURN" =>
            /\ FollowsChain(e)
            /\ \A k \in 1..Len(GetsOf(e)) :
                 HasNextRelation(GetsOf(e)[k].url) <=> k < Len(GetsOf(e))

\* C3 amended: the same, with the n-th response the first one that has no
\* "next" relation or has one whose URL is empty.
C3_CursorChainNonEmpty ==
    \A e \in 1..Len(log) :
        log[e].ev = "RETURN" =>
            /\ FollowsChain(e)
            /\ \A k \in 1..Len(GetsOf(e)) :
                 HasNextUrl(GetsOf(e)[k].url) <=> k < Len(GetsOf(e))

\* a fetch that returned after three GETs with the records of the three pages
C3_Witness ==
    /\ log # <<>>
    /\ log[Len(log)].ev = "RETURN"
    /\ Len(GetsOf(Len(log))) = 3
    /\ log[Len(log)].records = <<Rec1, Rec2, Rec3>>
    /\ log[CallOf(Len(log))].params # None

RECURSIVE ChainLength(_, _)
\* the number of pages from url to the first one without a "next" URL, every
\* page answering 2xx; 0 when that takes more than fuel pages
ChainLength(url, fuel) ==
    IF fuel = 0 \/ RaisesForStatus(Respond(url).status) THEN 0
    ELSE IF ~HasNextUrl(url) THEN 1
    ELSE LET rest == ChainLength(NextRelationUrl(url), fuel - 1)
         IN  IF rest = 0 THEN 0 ELSE rest + 1

RECURSIVE Reach(_, _)
\* the URLs the chain from url visits
Reach(url, fuel) ==
    IF fuel = 0 \/ url = "" THEN {}
    ELSE {url} \cup Reach(NextRelationUrl(url), fuel - 1)

\* every response of the chain from url answers 2xx and carries a "next" URL
Endless(url) ==
    \A u \in Reach(url, Cardinality(DOMAIN server) + 1) :
        ~RaisesForStatus(Respond(u).status) /\ HasNextUrl(u)

\* the URL the running call was given
CurrentCallUrl == log[CallOf(Len(log))].url

====
